---- MODULE Spec2Model ----
(***************************************************************************)
(* Multi-selection of the tree view: the gesture stack of                  *)
(* TreeSelectionState, the gesture service (addSelection), the list based  *)
(* service (setSelection) and the selection operations of TreeModelImpl.   *)
(***************************************************************************)
EXTENDS Integers, Sequences, FiniteSets, TLC

\* ------------------------------------------------------------------ bounds
\* longest gesture stack the state machine is driven to
MaxStack == 4
\* longest gesture stack the gesture service is driven to
MaxServiceStack == 2
\* longest list handed to setSelection
MaxSel == 2
\* longest selection list the tree model is driven to
MaxSelected == 4

\* ------------------------------------------------------------------- tree
\* `undefined` of the source
undefined == "undefined"

\* the root of the mock tree
root == "1"

\* the nodes of the tree, a sub-tree of the mock tree of the tests
TreeNodes == {"1", "1.1", "1.1.1", "1.2", "1.3"}

\* a node object that is not part of the tree (findNode's fallback in the tests)
missing == "missing"

\* every node object a caller can hand in
Nodes == TreeNodes \cup {missing}

\* ordered children of each node
children ==
    [n \in Nodes |->
        CASE n = "1"   -> <<"1.1", "1.2", "1.3">>
          [] n = "1.1" -> <<"1.1.1">>
          [] OTHER     -> <<>>]

\* parent back-reference
parent ==
    [n \in Nodes |->
        CASE n \in {"1.1", "1.2", "1.3"} -> "1"
          [] n = "1.1.1"                 -> "1.1"
          [] OTHER                       -> undefined]

\* ExpandableTreeNode.is: the nodes that carry an `expanded` flag
Expandable == {"1", "1.1"}

\* the nodes the expansion service collapses and expands between the calls
\* made on the gesture service
Flipped == {"1.1"}

\* SelectableTreeNode.is: the node carries a `selected` field
SelectableTreeNode_is(n) == n \in Nodes

VARIABLES
    expanded,        \* expanded flag of each expandable node
    selectionStack,  \* TreeSelectionState.selectionStack of the current state
    selected,        \* selected flag of each node
    selectedNodes_,  \* TreeSelectionServiceImpl._selectedNodes (list service)
    last,            \* the last gesture call or expansion change
    disposed         \* the service's onSelectionChangedEmitter is disposed

vars == <<expanded, selectionStack, selected, selectedNodes_, last, disposed>>

\* ------------------------------------------------------------ sequences
Reverse(s) == [i \in 1..Len(s) |-> s[Len(s) + 1 - i]]

\* Array.prototype.indexOf, 0-based, -1 when absent
RECURSIVE IndexFrom(_, _, _)
IndexFrom(s, x, i) ==
    IF i > Len(s) THEN -1
    ELSE IF s[i] = x THEN i - 1
    ELSE IndexFrom(s, x, i + 1)

indexOf(s, x) == IndexFrom(s, x, 1)

Range(s) == {s[i] : i \in 1..Len(s)}

\* each element occurs at most once
NoDuplicates(s) == \A i, j \in 1..Len(s) : s[i] = s[j] => i = j

\* Array.prototype.splice(index, 1, ...items), 0-based index; an index at or
\* past the end removes nothing
splice(s, index, items) ==
    IF index >= Len(s) THEN s \o items
    ELSE SubSeq(s, 1, index) \o items \o SubSeq(s, index + 2, Len(s))

\* Array.prototype.shift: drops the first element, if any
shift(s) == IF s = <<>> THEN <<>> ELSE Tail(s)

\* Array.prototype.pop: drops the last element, if any
pop(s) == IF s = <<>> THEN <<>> ELSE SubSeq(s, 1, Len(s) - 1)

RECURSIVE Flatten(_)
Flatten(ss) == IF ss = <<>> THEN <<>> ELSE Head(ss) \o Flatten(Tail(ss))

\* ------------------------------------------------------------- iterators
\* PreOrderTreeIterator(node, { pruneCollapsed }): the node, then each child
\* sub-tree left to right; children of a collapsed node are skipped
RECURSIVE PreOrderTreeIterator(_, _)
PreOrderTreeIterator(node, pruneCollapsed) ==
    IF pruneCollapsed /\ node \in Expandable /\ ~expanded[node]
    THEN <<node>>
    ELSE <<node>> \o
         Flatten([i \in 1..Len(children[node]) |->
                    PreOrderTreeIterator(children[node][i], pruneCollapsed)])

\* Tree.validateNode: the node itself when it is part of the tree
validateNode(node) == IF node \in TreeNodes THEN node ELSE undefined

\* --------------------------------------------------- TreeSelectionState
\* TreeSelection.SelectionType
DEFAULT == "DEFAULT"
TOGGLE == "TOGGLE"
RANGE == "RANGE"

SelectionType == {DEFAULT, TOGGLE, RANGE}

\* a TreeSelection { node, type }
TreeSelection(node, type) == [node |-> node, type |-> type]

\* (copy[i] || {}).node for a 1-based position i of the stack
nodeAt(copy, i) == IF i >= 1 /\ i <= Len(copy) THEN copy[i].node ELSE undefined

\* the loop of selectionRange over the pruned pre-order: collects the nodes
\* from the first of from/to up to and including the second
RECURSIVE collectRange(_, _, _, _, _, _)
collectRange(order, i, from, to, started, range) ==
    IF i > Len(order) THEN range
    ELSE LET node == order[i]
             hit == node = from \/ node = to
             finished1 == hit /\ started
             started1 == started \/ hit
             range1 == IF started1 THEN Append(range, node) ELSE range
         IN IF finished1 THEN range1
            ELSE collectRange(order, i + 1, from, to, started1, range1)

\* TreeSelectionState.selectionRange(fromNode, toNode)
selectionRange(fromNode, toNode) ==
    IF fromNode = undefined THEN <<>>
    ELSE IF toNode = fromNode THEN <<>>
    ELSE IF root = undefined THEN <<>>
    ELSE IF validateNode(toNode) = undefined THEN <<>>
    ELSE IF validateNode(fromNode) = undefined THEN <<>>
    ELSE LET range == collectRange(PreOrderTreeIterator(root, TRUE), 1,
                                   fromNode, toNode, FALSE, <<>>)
             ordered == IF indexOf(range, fromNode) > indexOf(range, toNode)
                        THEN Reverse(range) ELSE range
         IN SelectSeq(ordered, SelectableTreeNode_is)

\* the loop of TreeSelectionState.in over the pruned pre-order
RECURSIVE inLoop(_, _, _, _, _, _, _)
inLoop(order, i, from, to, toTest, started, finished) ==
    IF i > Len(order) THEN FALSE
    ELSE LET node == order[i]
         IN IF finished \/ (toTest = node /\ ~started) THEN FALSE
            ELSE LET hit == node = from \/ node = to
                     finished1 == finished \/ (hit /\ started)
                     started1 == started \/ hit
                 IN IF started1 /\ toTest = node THEN TRUE
                    ELSE inLoop(order, i + 1, from, to, toTest, started1, finished1)

\* TreeSelectionState.in(range, from, toTest)
in(range, from, toTest) ==
    IF from = undefined THEN FALSE
    ELSE IF root = undefined THEN FALSE
    ELSE IF from = toTest \/ range.node = toTest THEN TRUE
    ELSE inLoop(PreOrderTreeIterator(root, TRUE), 1, from, range.node, toTest,
                FALSE, FALSE)

\* TreeSelectionState.checkNoDefaultSelection: TRUE when it does not throw
checkNoDefaultSelection(selections) ==
    \A i \in 1..Len(selections) : selections[i].type \in {TOGGLE, RANGE}

\* the loop of TreeSelectionState.asArray, oldest gesture first
RECURSIVE asArrayLoop(_, _, _)
asArrayLoop(copy, i, nodes) ==
    IF i > Len(copy) THEN nodes
    ELSE LET node == copy[i].node
             type == copy[i].type
             hasLast == i > 1
             nodes1 ==
                IF type = RANGE
                THEN (IF hasLast /\ copy[i - 1].type = TOGGLE
                      THEN pop(nodes) ELSE nodes)
                     \o selectionRange(IF hasLast THEN copy[i - 1].node
                                       ELSE undefined, node)
                ELSE IF type = TOGGLE THEN Append(nodes, node)
                ELSE nodes
         IN asArrayLoop(copy, i + 1, nodes1)

\* TreeSelectionState.asArray of the state with the given stack
asArray(stack) == Reverse(asArrayLoop(stack, 1, <<>>))

\* handleReset returning the state it was handed
handleReset_keep(stack) == stack

\* TreeSelectionState.handleReset
handleReset(stack) == <<>>

\* handleDefault that keeps the gesture as it came in
handleDefault_keepType(stack, selectedNode) == <<TreeSelection(selectedNode, DEFAULT)>>

\* TreeSelectionState.handleDefault
handleDefault(stack, selectedNode) == <<TreeSelection(selectedNode, TOGGLE)>>

\* first loop of handleToggle: from the top of the stack, the first RANGE
\* whose range holds selectedNode is split; 0 when there is none
RECURSIVE splitIndex(_, _, _)
splitIndex(copy, i, selectedNode) ==
    IF i < 1 THEN 0
    ELSE IF copy[i].type = RANGE
            /\ indexOf(selectionRange(nodeAt(copy, i - 1), copy[i].node),
                       selectedNode) # -1
         THEN i
         ELSE splitIndex(copy, i - 1, selectedNode)

\* the toggles that replace the RANGE at position i of the stack
rangeSubstitute(copy, i, selectedNode) ==
    LET range == selectionRange(nodeAt(copy, i - 1), copy[i].node)
        index == indexOf(range, selectedNode)
        spliced == splice(range, index, <<>>)
        mapped == [k \in 1..Len(spliced) |-> TreeSelection(spliced[k], TOGGLE)]
    IN shift(mapped)

\* second loop of handleToggle: positions (top first) of the toggles of
\* selectedNode above the topmost RANGE
RECURSIVE toggleToRemove(_, _, _, _)
toggleToRemove(copy, i, selectedNode, toRemove) ==
    IF i < 1 THEN toRemove
    ELSE IF copy[i].type = RANGE THEN toRemove
    ELSE toggleToRemove(copy, i - 1, selectedNode,
                        IF copy[i].node = selectedNode
                        THEN Append(toRemove, i) ELSE toRemove)

\* toRemove.forEach(index => copy.splice(index, 1)), 1-based positions
RECURSIVE removeAll(_, _)
removeAll(copy, toRemove) ==
    IF toRemove = <<>> THEN copy
    ELSE removeAll(splice(copy, Head(toRemove) - 1, <<>>), Tail(toRemove))

\* handleToggle putting a new toggle below the stack instead of on top
handleToggle_unshift(stack, selectedNode) ==
    LET copy == stack
        i == splitIndex(copy, Len(copy), selectedNode)
        toRemove == toggleToRemove(copy, Len(copy), selectedNode, <<>>)
    IN IF i # 0
       THEN splice(copy, i - 1, rangeSubstitute(copy, i, selectedNode))
       ELSE IF Len(toRemove) > 0
            THEN removeAll(copy, toRemove)
            ELSE <<TreeSelection(selectedNode, TOGGLE)>> \o copy

\* handleToggle pushing the toggle also after it merged toggles away
handleToggle_repush(stack, selectedNode) ==
    LET copy == stack
        i == splitIndex(copy, Len(copy), selectedNode)
        toRemove == toggleToRemove(copy, Len(copy), selectedNode, <<>>)
    IN IF i # 0
       THEN splice(copy, i - 1, rangeSubstitute(copy, i, selectedNode))
       ELSE Append(removeAll(copy, toRemove), TreeSelection(selectedNode, TOGGLE))

\* TreeSelectionState.handleToggle
handleToggle(stack, selectedNode) ==
    LET copy == stack
        i == splitIndex(copy, Len(copy), selectedNode)
        toRemove == toggleToRemove(copy, Len(copy), selectedNode, <<>>)
    IN IF i # 0
       THEN splice(copy, i - 1, rangeSubstitute(copy, i, selectedNode))
       ELSE IF Len(toRemove) > 0
            THEN removeAll(copy, toRemove)
            ELSE Append(copy, TreeSelection(selectedNode, TOGGLE))

\* the loop of handleRange: positions (top first) of the toggles above the
\* topmost RANGE that lie in the new range
RECURSIVE rangeToRemove(_, _, _, _, _)
rangeToRemove(copy, i, range, lastSelection, toRemove) ==
    IF i < 1 THEN toRemove
    ELSE IF copy[i].type = RANGE THEN toRemove
    ELSE rangeToRemove(copy, i - 1, range, lastSelection,
                       IF in(range, lastSelection, copy[i].node)
                       THEN Append(toRemove, i) ELSE toRemove)

\* handleRange that leaves a RANGE on top of the stack where it is
handleRange_noPop(stack, selectedNode) ==
    LET copy == stack
        range == TreeSelection(selectedNode, RANGE)
        lastSelection == nodeAt(copy, Len(copy))
        topIsRange == Len(copy) > 0 /\ copy[Len(copy)].type = RANGE
        toRemove == IF topIsRange THEN <<>>
                    ELSE rangeToRemove(copy, Len(copy), range, lastSelection, <<>>)
    IN Append(removeAll(copy, shift(toRemove)), range)

\* handleRange that turns a range without an anchor into a toggle
handleRange_anchorless(stack, selectedNode) ==
    LET copy == stack
        range == TreeSelection(selectedNode, RANGE)
        lastSelection == nodeAt(copy, Len(copy))
        topIsRange == Len(copy) > 0 /\ copy[Len(copy)].type = RANGE
        popped == IF topIsRange THEN pop(copy) ELSE copy
        toRemove == IF topIsRange THEN <<>>
                    ELSE rangeToRemove(copy, Len(copy), range, lastSelection, <<>>)
    IN IF copy = <<>> THEN <<TreeSelection(selectedNode, TOGGLE)>>
       ELSE Append(removeAll(popped, shift(toRemove)), range)

\* handleRange without toRemove.shift(): the anchor toggle is dropped as well
handleRange_noShift(stack, selectedNode) ==
    LET copy == stack
        range == TreeSelection(selectedNode, RANGE)
        lastSelection == nodeAt(copy, Len(copy))
        topIsRange == Len(copy) > 0 /\ copy[Len(copy)].type = RANGE
        popped == IF topIsRange THEN pop(copy) ELSE copy
        toRemove == IF topIsRange THEN <<>>
                    ELSE rangeToRemove(copy, Len(copy), range, lastSelection, <<>>)
    IN Append(removeAll(popped, toRemove), range)

\* TreeSelectionState.handleRange
handleRange(stack, selectedNode) ==
    LET copy == stack
        range == TreeSelection(selectedNode, RANGE)
        lastSelection == nodeAt(copy, Len(copy))
        topIsRange == Len(copy) > 0 /\ copy[Len(copy)].type = RANGE
        popped == IF topIsRange THEN pop(copy) ELSE copy
        toRemove == IF topIsRange THEN <<>>
                    ELSE rangeToRemove(copy, Len(copy), range, lastSelection, <<>>)
    IN Append(removeAll(popped, shift(toRemove)), range)

\* the 'reset' argument of nextState and addSelection
reset == [node |-> undefined, type |-> "reset"]

\* TreeSelectionState.nextState
nextState(stack, selection) ==
    CASE selection.type = "reset" -> handleReset(stack)
      [] selection.type = undefined -> handleDefault(stack, selection.node)
      [] selection.type = DEFAULT -> handleDefault(stack, selection.node)
      [] selection.type = TOGGLE  -> handleToggle(stack, selection.node)
      [] selection.type = RANGE   -> handleRange(stack, selection.node)

\* selectionStack.slice() handing back the array it was called on
slice_shared(array) == [items |-> array, shared |-> TRUE]

\* Array.prototype.slice as handleToggle and handleRange call it: a new array
\* with the elements of the stack, so that writes to it do not reach the stack
slice(array) == [items |-> array, shared |-> FALSE]

\* the array `copy` of handleToggle when the handler returns, after its
\* copy.splice calls
handleToggle_copy(stack, selectedNode) ==
    LET copy == slice(stack).items
        i == splitIndex(copy, Len(copy), selectedNode)
        toRemove == toggleToRemove(copy, Len(copy), selectedNode, <<>>)
    IN IF i # 0
       THEN splice(copy, i - 1, rangeSubstitute(copy, i, selectedNode))
       ELSE removeAll(copy, toRemove)

\* the array `copy` of handleRange when the handler returns, after its
\* copy.pop and copy.splice calls
handleRange_copy(stack, selectedNode) ==
    LET copy == slice(stack).items
        range == TreeSelection(selectedNode, RANGE)
        lastSelection == nodeAt(copy, Len(copy))
        topIsRange == Len(copy) > 0 /\ copy[Len(copy)].type = RANGE
        popped == IF topIsRange THEN pop(copy) ELSE copy
        toRemove == IF topIsRange THEN <<>>
                    ELSE rangeToRemove(copy, Len(copy), range, lastSelection, <<>>)
    IN removeAll(popped, shift(toRemove))

\* the selectionStack of the state nextState was called on, once the call
\* has returned: handleToggle and handleRange write to `copy` only, and
\* handleReset and handleDefault write to no array
receiverStack(stack, selection) ==
    LET written == CASE selection.type = TOGGLE ->
                            handleToggle_copy(stack, selection.node)
                     [] selection.type = RANGE ->
                            handleRange_copy(stack, selection.node)
                     [] OTHER -> stack
    IN IF slice(stack).shared THEN written ELSE stack

\* ------------------------------------ TreeSelectionServiceImpl (gestures)
\* TreeSelectionServiceImpl.difference: the elements of left not in right
difference(left, right) == SelectSeq(left, LAMBDA item : indexOf(right, item) = -1)

\* TreeSelectionServiceImpl.unselect
unselect(flags, nodes) == [n \in Nodes |-> IF n \in Range(nodes) THEN FALSE ELSE flags[n]]

\* TreeSelectionServiceImpl.select
select(flags, nodes) == [n \in Nodes |-> IF n \in Range(nodes) THEN TRUE ELSE flags[n]]

\* TreeSelectionServiceImpl.fireSelectionChanged: one event, with its payload
\* this.state.asArray() and the service state and flags its listeners find
fireSelectionChanged(state, flags) ==
    [payload |-> asArray(state), state |-> state, selected |-> flags]

\* addSelection firing the event before it touches the flags and the state
addSelection_fireFirst(state, flags, selection) ==
    LET unchanged == [state |-> state, selected |-> flags, fired |-> <<>>]
    IN IF selection.type # "reset" /\ validateNode(selection.node) = undefined
       THEN unchanged
       ELSE LET oldState == state
                newState == nextState(state, selection)
                oldNodes == asArray(oldState)
                newNodes == asArray(newState)
                toUnselect == difference(oldNodes, newNodes)
                toSelect == difference(newNodes, oldNodes)
                flagged == select(unselect(flags, toUnselect), toSelect)
            IN IF Len(toUnselect) = 0 /\ Len(toSelect) = 0
               THEN unchanged
               ELSE [state |-> newState,
                     selected |-> flagged,
                     fired |-> <<fireSelectionChanged(oldState, flags)>>]

\* addSelection without the validateNode check
addSelection_noValidate(state, flags, selection) ==
    LET unchanged == [state |-> state, selected |-> flags, fired |-> <<>>]
    IN     LET oldState == state
                newState == nextState(state, selection)
                oldNodes == asArray(oldState)
                newNodes == asArray(newState)
                toUnselect == difference(oldNodes, newNodes)
                toSelect == difference(newNodes, oldNodes)
                flagged == select(unselect(flags, toUnselect), toSelect)
            IN IF Len(toUnselect) = 0 /\ Len(toSelect) = 0
               THEN unchanged
               ELSE [state |-> newState,
                     selected |-> flagged,
                     fired |-> <<fireSelectionChanged(newState, flagged)>>]

\* TreeSelectionServiceImpl.addSelection: the state, the flags and the events
\* fired when the call returns
addSelection(state, flags, selection) ==
    LET unchanged == [state |-> state, selected |-> flags, fired |-> <<>>]
    IN IF selection.type # "reset" /\ validateNode(selection.node) = undefined
       THEN unchanged
       ELSE LET oldState == state
                newState == nextState(state, selection)
                oldNodes == asArray(oldState)
                newNodes == asArray(newState)
                toUnselect == difference(oldNodes, newNodes)
                toSelect == difference(newNodes, oldNodes)
                flagged == select(unselect(flags, toUnselect), toSelect)
            IN IF Len(toUnselect) = 0 /\ Len(toSelect) = 0
               THEN unchanged
               ELSE [state |-> newState,
                     selected |-> flagged,
                     fired |-> <<fireSelectionChanged(newState, flagged)>>]

\* TreeSelectionServiceImpl.selectedNodes of the gesture service
selectedNodes == asArray(selectionStack)

\* --------------------------------------- TreeSelectionServiceImpl (lists)
\* doSelectNodes that puts each node in front of those before it
doSelectNodes_unshift(list, flags, nodes) ==
    [nodes |-> Reverse(nodes),
     selected |-> [n \in Nodes |->
                    IF n \in Range(nodes) THEN TRUE
                    ELSE IF n \in Range(list) THEN FALSE
                    ELSE flags[n]],
     fired |-> <<Reverse(nodes)>>]

\* doSelectNodes that does not clear the flags of the old selection
doSelectNodes_noClear(list, flags, nodes) ==
    [nodes |-> nodes,
     selected |-> [n \in Nodes |-> IF n \in Range(nodes) THEN TRUE ELSE flags[n]],
     fired |-> <<nodes>>]

\* TreeSelectionServiceImpl.doSelectNodes: the list and the flags afterwards,
\* and the payloads of the events fired
doSelectNodes(list, flags, nodes) ==
    [nodes |-> nodes,
     selected |-> [n \in Nodes |->
                    IF n \in Range(nodes) THEN TRUE
                    ELSE IF n \in Range(list) THEN FALSE
                    ELSE flags[n]],
     fired |-> <<nodes>>]

\* TreeSelectionServiceImpl.setSelection
setSelection(list, flags, nodes) ==
    doSelectNodes(list, flags,
        SelectSeq(nodes, LAMBDA n : validateNode(n) # undefined /\ SelectableTreeNode_is(n)))

\* ----------------------------------------------------------- TreeModelImpl
\* CompositeTreeNode.isAncestor: a is reached from d by parent references
RECURSIVE isAncestor(_, _)
isAncestor(a, d) ==
    IF d = undefined \/ parent[d] = undefined THEN FALSE
    ELSE parent[d] = a \/ isAncestor(a, parent[d])

\* TreeNode.isVisible: every ancestor is expanded
RECURSIVE TreeNode_isVisible(_)
TreeNode_isVisible(n) ==
    IF n = undefined THEN FALSE
    ELSE IF parent[n] = undefined THEN TRUE
    ELSE (parent[n] \in Expandable => expanded[parent[n]])
         /\ TreeNode_isVisible(parent[n])

\* SelectableTreeNode.isVisible
SelectableTreeNode_isVisible(n) ==
    n # undefined /\ SelectableTreeNode_is(n) /\ TreeNode_isVisible(n)

\* this.selectedNodes[0], undefined for the empty list
firstSelected(list) == IF list = <<>> THEN undefined ELSE list[1]

\* selectNode that sets the selection again when the node is already first
selectNode_always(list, flags, node, preserveSelection) ==
    IF preserveSelection
    THEN LET copy == list
             index == indexOf(copy, node)
         IN IF index = -1
            THEN setSelection(list, flags, <<node>> \o copy)
            ELSE setSelection(list, flags, <<node>> \o splice(copy, index, <<>>))
    ELSE setSelection(list, flags, <<node>>)

\* TreeModelImpl.selectNode
selectNode(list, flags, node, preserveSelection) ==
    IF preserveSelection
    THEN LET copy == list
             index == indexOf(copy, node)
         IN IF index = -1
            THEN setSelection(list, flags, <<node>> \o copy)
            ELSE IF index # 0
                 THEN setSelection(list, flags, <<node>> \o splice(copy, index, <<>>))
                 ELSE [nodes |-> list, selected |-> flags, fired |-> <<>>]
    ELSE setSelection(list, flags, <<node>>)

\* TreeModelImpl.unselectNode
unselectNode(list, flags, node) ==
    LET copy == list
        index == indexOf(copy, node)
    IN IF index # -1
       THEN setSelection(list, flags, splice(copy, index, <<>>))
       ELSE [nodes |-> list, selected |-> flags, fired |-> <<>>]

\* TreeModelImpl.toggleSelection
toggleSelection(list, flags, node) ==
    IF flags[node]
    THEN unselectNode(list, flags, node)
    ELSE selectNode(list, flags, node, TRUE)

\* selectionRange iterating over the collapsed nodes' children as well
TreeModelImpl_selectionRange_unpruned(treeRoot, toNode, fromNode) ==
    IF toNode = fromNode THEN <<>>
    ELSE IF treeRoot = undefined THEN <<>>
    ELSE IF validateNode(toNode) = undefined THEN <<>>
    ELSE IF validateNode(fromNode) = undefined THEN <<>>
    ELSE LET range == collectRange(PreOrderTreeIterator(treeRoot, FALSE), 1,
                                   fromNode, toNode, FALSE, <<>>)
             ordered == IF indexOf(range, fromNode) > indexOf(range, toNode)
                        THEN Reverse(range) ELSE range
         IN SelectSeq(ordered, SelectableTreeNode_is)

\* selectionRange that never reverses what it collected
TreeModelImpl_selectionRange_noReverse(treeRoot, toNode, fromNode) ==
    IF toNode = fromNode THEN <<>>
    ELSE IF treeRoot = undefined THEN <<>>
    ELSE IF validateNode(toNode) = undefined THEN <<>>
    ELSE IF validateNode(fromNode) = undefined THEN <<>>
    ELSE LET range == collectRange(PreOrderTreeIterator(treeRoot, TRUE), 1,
                                   fromNode, toNode, FALSE, <<>>)
             ordered == range
         IN SelectSeq(ordered, SelectableTreeNode_is)

\* selectionRange reversing when from comes first
TreeModelImpl_selectionRange_flipped(treeRoot, toNode, fromNode) ==
    IF toNode = fromNode THEN <<>>
    ELSE IF treeRoot = undefined THEN <<>>
    ELSE IF validateNode(toNode) = undefined THEN <<>>
    ELSE IF validateNode(fromNode) = undefined THEN <<>>
    ELSE LET range == collectRange(PreOrderTreeIterator(treeRoot, TRUE), 1,
                                   fromNode, toNode, FALSE, <<>>)
             ordered == IF indexOf(range, fromNode) < indexOf(range, toNode)
                        THEN Reverse(range) ELSE range
         IN SelectSeq(ordered, SelectableTreeNode_is)

\* selectionRange without the toNode === fromNode check
TreeModelImpl_selectionRange_noEqualCheck(treeRoot, toNode, fromNode) ==
    IF treeRoot = undefined THEN <<>>
    ELSE IF validateNode(toNode) = undefined THEN <<>>
    ELSE IF validateNode(fromNode) = undefined THEN <<>>
    ELSE LET range == collectRange(PreOrderTreeIterator(treeRoot, TRUE), 1,
                                   fromNode, toNode, FALSE, <<>>)
             ordered == IF indexOf(range, fromNode) > indexOf(range, toNode)
                        THEN Reverse(range) ELSE range
         IN SelectSeq(ordered, SelectableTreeNode_is)

\* TreeModelImpl.selectionRange(toNode, fromNode) of a model whose root is
\* treeRoot
TreeModelImpl_selectionRange(treeRoot, toNode, fromNode) ==
    IF toNode = fromNode THEN <<>>
    ELSE IF treeRoot = undefined THEN <<>>
    ELSE IF validateNode(toNode) = undefined THEN <<>>
    ELSE IF validateNode(fromNode) = undefined THEN <<>>
    ELSE LET range == collectRange(PreOrderTreeIterator(treeRoot, TRUE), 1,
                                   fromNode, toNode, FALSE, <<>>)
             ordered == IF indexOf(range, fromNode) > indexOf(range, toNode)
                        THEN Reverse(range) ELSE range
         IN SelectSeq(ordered, SelectableTreeNode_is)

\* TreeModelImpl.selectionRange(toNode, fromNode) on the tree of the model
modelSelectionRange(toNode, fromNode) ==
    TreeModelImpl_selectionRange(root, toNode, fromNode)

\* the loop of selectRange over the copy of the selection: the element at the
\* position the node has in the range is spliced out of the copy
RECURSIVE removeRange(_, _, _)
removeRange(copy, k, range) ==
    IF k > Len(copy) THEN copy
    ELSE LET index == indexOf(range, copy[k])
         IN removeRange(IF index # -1 THEN splice(copy, index, <<>>) ELSE copy,
                        k + 1, range)

\* selectRange that sets the range in the order selectionRange returned it
selectRange_noReverse(list, flags, toNode, fromNode, preserveSelection) ==
    LET from == IF fromNode # undefined THEN fromNode ELSE firstSelected(list)
        range == modelSelectionRange(toNode, from)
    IN IF Len(range) = 0 THEN [nodes |-> list, selected |-> flags, fired |-> <<>>]
       ELSE IF preserveSelection
            THEN setSelection(list, flags, range \o removeRange(list, 1, range))
            ELSE setSelection(list, flags, range)

\* TreeModelImpl.selectRange
selectRange(list, flags, toNode, fromNode, preserveSelection) ==
    LET from == IF fromNode # undefined THEN fromNode ELSE firstSelected(list)
        range == Reverse(modelSelectionRange(toNode, from))
    IN IF Len(range) = 0 THEN [nodes |-> list, selected |-> flags, fired |-> <<>>]
       ELSE IF preserveSelection
            THEN setSelection(list, flags, range \o removeRange(list, 1, range))
            ELSE setSelection(list, flags, range)

\* the handler without the test that the node was collapsed
onExpansionChanged_always(list, flags, node, nodeExpanded) ==
    IF (\E i \in 1..Len(list) : isAncestor(node, list[i]))
       /\ SelectableTreeNode_isVisible(node)
    THEN setSelection(list, flags, <<node>>)
    ELSE [nodes |-> list, selected |-> flags, fired |-> <<>>]

\* the onExpansionChanged handler that init() registers
onExpansionChanged(list, flags, node, nodeExpanded) ==
    IF ~nodeExpanded /\ (\E i \in 1..Len(list) : isAncestor(node, list[i]))
       /\ SelectableTreeNode_isVisible(node)
    THEN setSelection(list, flags, <<node>>)
    ELSE [nodes |-> list, selected |-> flags, fired |-> <<>>]

\* TopToBottomTreeIterator's continuation: the sub-trees of the siblings
\* after the node, then those after its parent, and so on up to the root
RECURSIVE successors(_, _)
successors(node, pruneCollapsed) ==
    IF node = undefined \/ parent[node] = undefined THEN <<>>
    ELSE LET siblings == children[parent[node]]
             index == indexOf(siblings, node)
         IN Flatten([k \in 1..(Len(siblings) - index - 1) |->
                       PreOrderTreeIterator(siblings[index + 1 + k], pruneCollapsed)])
            \o successors(parent[node], pruneCollapsed)

\* TopToBottomTreeIterator(start, { pruneCollapsed }): the pre-order of the
\* start node, continued through the nodes that follow it in the tree
TopToBottomTreeIterator(start, pruneCollapsed) ==
    PreOrderTreeIterator(start, pruneCollapsed) \o successors(start, pruneCollapsed)

\* BottomToTopTreeIterator(start, { pruneCollapsed }): the start node, then
\* the nodes before it in the tree, last first, up to the root
RECURSIVE BottomToTopTreeIterator(_, _)
BottomToTopTreeIterator(start, pruneCollapsed) ==
    <<start>> \o
    IF parent[start] = undefined THEN <<>>
    ELSE LET siblings == children[parent[start]]
             index == indexOf(siblings, start)
         IN Flatten([k \in 1..index |->
                       Reverse(PreOrderTreeIterator(siblings[index + 1 - k], pruneCollapsed))])
            \o BottomToTopTreeIterator(parent[start], pruneCollapsed)

\* TreeModelImpl.createBackwardIterator: the empty sequence stands for no
\* iterator
createBackwardIterator(node) ==
    IF node # undefined THEN BottomToTopTreeIterator(node, TRUE) ELSE <<>>

\* TreeModelImpl.createIterator: the empty sequence stands for no iterator
createIterator(node) ==
    IF node # undefined THEN TopToBottomTreeIterator(node, TRUE) ELSE <<>>

\* the loop of selectNextVisibleNode: the first visible selectable node the
\* iterator still yields, undefined when it runs out
RECURSIVE nextVisible(_)
nextVisible(iterator) ==
    IF iterator = <<>> THEN undefined
    ELSE IF SelectableTreeNode_isVisible(Head(iterator)) THEN Head(iterator)
    ELSE nextVisible(Tail(iterator))

\* selectNextVisibleNode that does not skip the first item
selectNextVisibleNode_noSkip(list, flags, iterator, preserveSelection) ==
    LET node == nextVisible(iterator)
    IN IF SelectableTreeNode_isVisible(node)
       THEN selectNode(list, flags, node, preserveSelection)
       ELSE [nodes |-> list, selected |-> flags, fired |-> <<>>]

\* TreeModelImpl.selectNextVisibleNode
selectNextVisibleNode(list, flags, iterator, preserveSelection) ==
    LET node == nextVisible(shift(iterator))
    IN IF SelectableTreeNode_isVisible(node)
       THEN selectNode(list, flags, node, preserveSelection)
       ELSE [nodes |-> list, selected |-> flags, fired |-> <<>>]

\* TreeModelImpl.selectPrevNode
selectPrevNode(list, flags, preserveSelection) ==
    LET node == firstSelected(list)
        iterator == createBackwardIterator(node)
    IN IF iterator # <<>>
       THEN selectNextVisibleNode(list, flags, iterator, preserveSelection)
       ELSE [nodes |-> list, selected |-> flags, fired |-> <<>>]

\* TreeModelImpl.selectNextNode
selectNextNode(list, flags, preserveSelection) ==
    LET node == firstSelected(list)
        iterator == createIterator(node)
    IN IF iterator # <<>>
       THEN selectNextVisibleNode(list, flags, iterator, preserveSelection)
       ELSE [nodes |-> list, selected |-> flags, fired |-> <<>>]

\* SelectableTreeNode.getVisibleParent
RECURSIVE getVisibleParent(_)
getVisibleParent(node) ==
    IF node = undefined THEN undefined
    ELSE IF SelectableTreeNode_isVisible(parent[node]) THEN parent[node]
    ELSE getVisibleParent(parent[node])

\* TreeModelImpl.selectParent
selectParent(list, flags) ==
    IF Len(list) = 1
    THEN LET node == list[1]
             visibleParent == getVisibleParent(node)
         IN IF visibleParent # undefined
            THEN setSelection(list, flags, <<visibleParent>>)
            ELSE [nodes |-> list, selected |-> flags, fired |-> <<>>]
    ELSE [nodes |-> list, selected |-> flags, fired |-> <<>>]

\* ---------------------------------------------------------- operations
\* the record kept of the last call
NoCall == [op |-> "none", node |-> undefined, type |-> "none"]

\* the gestures a caller can make on nodes of the tree
ValidGestures == {TreeSelection(n, t) : n \in TreeNodes, t \in SelectionType}

\* every argument a caller can hand to addSelection
ServiceCalls == {TreeSelection(n, t) : n \in Nodes, t \in SelectionType} \cup {reset}

\* all flags false, as MOCK_ROOT builds the nodes
NoneSelected == [n \in Nodes |-> FALSE]

\* state.nextState(selection) becomes the current state (the state machine
\* driven directly, as the state tests do)
NextState(selection) ==
    \E next \in {nextState(selectionStack, selection)} :
       /\ Len(next) <= MaxStack
       /\ selectionStack' = next
       /\ last' = [NoCall EXCEPT !.op = "nextState"]
       /\ UNCHANGED <<expanded, selected, selectedNodes_, disposed>>

\* service.addSelection(selection)
AddSelection(selection) ==
    \E r \in {addSelection(selectionStack, selected, selection)} :
       /\ Len(r.state) <= MaxServiceStack
       /\ selectionStack' = r.state
       /\ selected' = r.selected
       /\ last' = [NoCall EXCEPT !.op = "addSelection"]
       /\ UNCHANGED <<expanded, selectedNodes_, disposed>>

\* the expansion service expands a collapsed node
ExpandNode(node) ==
    /\ ~expanded[node]
    /\ expanded' = [expanded EXCEPT ![node] = TRUE]
    /\ last' = [NoCall EXCEPT !.op = "expandNode", !.node = node]
    /\ UNCHANGED <<selectionStack, selected, selectedNodes_, disposed>>

\* the expansion service collapses an expanded node
CollapseNode(node) ==
    /\ expanded[node]
    /\ expanded' = [expanded EXCEPT ![node] = FALSE]
    /\ last' = [NoCall EXCEPT !.op = "collapseNode", !.node = node]
    /\ UNCHANGED <<selectionStack, selected, selectedNodes_, disposed>>

\* ------------------------------------------------------ specifications
InitCommon ==
    /\ selectionStack = <<>>
    /\ selected = NoneSelected
    /\ selectedNodes_ = <<>>
    /\ last = NoCall
    /\ disposed = FALSE

\* the state machine alone, on a fixed tree: the root is expanded and the
\* inner node 1.1 is expanded or collapsed
InitState ==
    /\ expanded \in {e \in [Expandable -> BOOLEAN] : e[root]}
    /\ InitCommon

NextOfState ==
    \/ \E n \in TreeNodes : NextState(TreeSelection(n, DEFAULT))
    \/ \E n \in TreeNodes : NextState(TreeSelection(n, TOGGLE))
    \/ \E n \in TreeNodes : NextState(TreeSelection(n, RANGE))
    \/ NextState(reset)

SpecState == InitState /\ [][NextOfState]_vars

\* the gesture service, with the expansion service changing the tree
Init ==
    /\ expanded = [n \in Expandable |-> TRUE]
    /\ InitCommon

Next ==
    \/ \E n \in Nodes : AddSelection(TreeSelection(n, DEFAULT))
    \/ \E n \in Nodes : AddSelection(TreeSelection(n, TOGGLE))
    \/ \E n \in Nodes : AddSelection(TreeSelection(n, RANGE))
    \/ AddSelection(reset)
    \/ \E n \in Flipped : ExpandNode(n)
    \/ \E n \in Flipped : CollapseNode(n)

Spec == Init /\ [][Next]_vars

\* the lists of distinct node objects a caller hands to setSelection
SelectionLists ==
    {s \in UNION {[1..k -> Nodes] : k \in 0..MaxSel} : NoDuplicates(s)}

\* the outcome of a tree model call becomes the state
Commit(r) ==
    /\ Len(r.nodes) <= MaxSelected
    /\ selectedNodes_' = r.nodes
    /\ selected' = r.selected
    /\ UNCHANGED <<expanded, selectionStack, last, disposed>>

\* model.setSelection(nodes)
SetSelection(nodes) ==
    Commit(setSelection(selectedNodes_, selected, nodes))

\* model.selectNode(node, preserveSelection)
SelectNode(node, preserveSelection) ==
    Commit(selectNode(selectedNodes_, selected, node, preserveSelection))

\* model.unselectNode(node)
UnselectNode(node) ==
    Commit(unselectNode(selectedNodes_, selected, node))

\* model.toggleSelection(node)
ToggleSelection(node) ==
    Commit(toggleSelection(selectedNodes_, selected, node))

\* model.selectRange(toNode, fromNode, preserveSelection)
SelectRange(toNode, fromNode, preserveSelection) ==
    Commit(selectRange(selectedNodes_, selected, toNode, fromNode, preserveSelection))

\* model.expandNode(node) / model.collapseNode(node): the expansion service
\* flips the flag and fires onExpansionChanged, which the model handles
SetExpanded(node, value) ==
    /\ expanded[node] # value
    /\ expanded' = [expanded EXCEPT ![node] = value]
    /\ \E r \in {onExpansionChanged(selectedNodes_, selected, node, value)} :
          /\ selectedNodes_' = r.nodes
          /\ selected' = r.selected
    /\ UNCHANGED <<selectionStack, last, disposed>>

\* model.selectPrevNode(preserveSelection)
SelectPrevNode(preserveSelection) ==
    Commit(selectPrevNode(selectedNodes_, selected, preserveSelection))

\* model.selectNextNode(preserveSelection)
SelectNextNode(preserveSelection) ==
    Commit(selectNextNode(selectedNodes_, selected, preserveSelection))

\* model.selectParent()
SelectParent ==
    Commit(selectParent(selectedNodes_, selected))

\* the tree model over the list service
NextOfModel ==
    \/ \E nodes \in SelectionLists : SetSelection(nodes)
    \/ \E n \in Nodes, p \in BOOLEAN : SelectNode(n, p)
    \/ \E n \in Nodes : UnselectNode(n)
    \/ \E n \in Nodes : ToggleSelection(n)
    \/ \E to \in Nodes, from \in Nodes \cup {undefined}, p \in BOOLEAN :
          SelectRange(to, from, p)
    \/ \E n \in Expandable, v \in BOOLEAN : SetExpanded(n, v)
    \/ \E p \in BOOLEAN : SelectPrevNode(p)
    \/ \E p \in BOOLEAN : SelectNextNode(p)
    \/ SelectParent

SpecModel == Init /\ [][NextOfModel]_vars

\* selectionService.dispose(): the emitter is disposed, the list and the
\* flags are left as they are
Dispose ==
    /\ ~disposed
    /\ disposed' = TRUE
    /\ UNCHANGED <<expanded, selectionStack, selected, selectedNodes_, last>>

\* the tree model over the list service, which a caller may dispose
NextOfDisposal ==
    \/ NextOfModel
    \/ Dispose

SpecDisposal == Init /\ [][NextOfDisposal]_vars

\* ------------------------------------------------- vocabulary of the claims
\* the collapse-pruned pre-order of the tree
PrunedOrder == PreOrderTreeIterator(root, TRUE)

\* the list without the elements of a set, order kept
Without(s, set) == SelectSeq(s, LAMBDA x : x \notin set)

ToggleOf(n) == TreeSelection(n, TOGGLE)
RangeOf(n) == TreeSelection(n, RANGE)
Toggles(s) == [k \in 1..Len(s) |-> ToggleOf(s[k])]

\* position of the topmost RANGE gesture of a stack, 0 when there is none
TopRange(stack) ==
    IF \E i \in 1..Len(stack) : stack[i].type = RANGE
    THEN CHOOSE i \in 1..Len(stack) :
            /\ stack[i].type = RANGE
            /\ \A j \in (i + 1)..Len(stack) : stack[j].type # RANGE
    ELSE 0

HasRange(stack) == TopRange(stack) # 0

\* range(a, r.node) of the RANGE gesture at position i of a stack
RangeAt(stack, i) == selectionRange(nodeAt(stack, i - 1), stack[i].node)

\* position of the topmost RANGE gesture whose range holds n, 0 when none
TopRangeWith(stack, n) ==
    LET hits == {i \in 1..Len(stack) :
                    stack[i].type = RANGE /\ n \in Range(RangeAt(stack, i))}
    IN IF hits = {} THEN 0
       ELSE CHOOSE i \in hits : \A j \in hits : j <= i

\* the slice of the pruned pre-order between two of its nodes, listed from a to b
Between(a, b) ==
    LET pa == indexOf(PrunedOrder, a) + 1
        pb == indexOf(PrunedOrder, b) + 1
    IN IF pa <= pb THEN SubSeq(PrunedOrder, pa, pb)
       ELSE Reverse(SubSeq(PrunedOrder, pb, pa))

\* --------------------------------------------------------------- claims
\* C1: the projection asArray() of every state reached from the empty state
\* by DEFAULT, TOGGLE and RANGE gestures on valid nodes of a fixed tree
\* holds each node at most once.
C1_NoDuplicates == NoDuplicates(asArray(selectionStack))

\* C2: after any addSelection call, also when nodes were collapsed or
\* expanded between the calls, every node of selectedNodes has its selected
\* flag set, and every node that was in selectedNodes before the call and is
\* not in it afterwards has the flag cleared.
C2_FlagConsistency ==
    \A selection \in ServiceCalls :
        LET r == addSelection(selectionStack, selected, selection)
            before == Range(asArray(selectionStack))
            after == Range(asArray(r.state))
        IN /\ \A n \in after : r.selected[n]
           /\ \A n \in before \ after : ~r.selected[n]

\* C3: after any sequence of setSelection, selectNode, unselectNode,
\* toggleSelection and selectRange calls on the tree model, a node's selected
\* flag is true exactly when the node is in selectedNodes.
C3_ListFlagConsistency ==
    \A n \in Nodes : selected[n] <=> n \in Range(selectedNodes_)

\* model calls left three nodes selected and the others not, one of them
\* hidden under a node collapsed since
C3_Witness ==
    /\ Len(selectedNodes_) = 3
    /\ \E i \in 1..3 : ~TreeNode_isVisible(selectedNodes_[i])
    /\ \A i \in 1..3 : selected[selectedNodes_[i]]
    /\ \E n \in TreeNodes : ~selected[n]

\* C4: for every reachable state S, S.nextState('reset').asArray() is empty.
C4_ResetEmpties == asArray(nextState(selectionStack, reset)) = <<>>

\* a reset applied to a state with a range and several selected nodes
C4_Witness ==
    /\ HasRange(selectionStack)
    /\ Len(asArray(selectionStack)) >= 3
    /\ nextState(selectionStack, reset) = <<>>

\* C5: addSelection(TOGGLE(n)) on a valid node n that is in selectedNodes
\* leaves n out of selectedNodes and n.selected false.
C5_ToggleUnselects ==
    \A n \in TreeNodes :
        n \in Range(asArray(selectionStack))
        => LET r == addSelection(selectionStack, selected, ToggleOf(n))
           IN n \notin Range(asArray(r.state)) /\ ~r.selected[n]

\* C6: a TOGGLE on a node that is not in the projection puts it in front of
\* the otherwise unchanged projection.
C6_TogglePrepends ==
    LET nodes == asArray(selectionStack)
    IN \A n \in TreeNodes :
          n \notin Range(nodes)
          => asArray(nextState(selectionStack, ToggleOf(n))) = <<n>> \o nodes

\* an unselected node toggled on top of a range and other selected nodes
C6_Witness ==
    \E n \in TreeNodes :
        /\ n \notin Range(asArray(selectionStack))
        /\ HasRange(selectionStack)
        /\ Len(asArray(selectionStack)) >= 3
        /\ nextState(selectionStack, ToggleOf(n))
           = Append(selectionStack, ToggleOf(n))

\* C7: when TOGGLE(n) adds n to the projection of S, a second TOGGLE(n)
\* gives back the projection of S.
C7_IdempotentToggle ==
    LET nodes == asArray(selectionStack)
    IN \A n \in TreeNodes :
          LET added == nextState(selectionStack, ToggleOf(n))
          IN (n \notin Range(nodes) /\ n \in Range(asArray(added)))
             => asArray(nextState(added, ToggleOf(n))) = nodes

\* a node toggled in above a range and other selected nodes, and toggling it
\* again takes it out
C7_Witness ==
    \E n \in TreeNodes :
        LET added == nextState(selectionStack, ToggleOf(n))
        IN /\ n \notin Range(asArray(selectionStack))
           /\ HasRange(selectionStack)
           /\ Len(selectionStack) >= 2
           /\ added = Append(selectionStack, ToggleOf(n))
           /\ nextState(added, ToggleOf(n)) = selectionStack

\* C8: TOGGLE(n) with n in the range of the topmost RANGE gesture r that
\* holds it replaces r by the TOGGLEs of the nodes of that range other than
\* the anchor a and n, in the order of the range, and leaves the other
\* gestures alone; also for n = a and n = r.node.
C8_RangeSplit ==
    \A n \in TreeNodes :
        LET i == TopRangeWith(selectionStack, n)
            a == nodeAt(selectionStack, i - 1)
        IN i # 0
           => nextState(selectionStack, ToggleOf(n))
              = splice(selectionStack, i - 1,
                       Toggles(Without(RangeAt(selectionStack, i), {a, n})))

\* C9: with TOGGLE(n) among the toggles above the topmost RANGE, TOGGLE(n)
\* removes every such toggle, pushes nothing, and the projection is the old
\* one without n, the other nodes in their order.
C9_ToggleMerge ==
    \A n \in TreeNodes :
        LET top == TopRange(selectionStack)
            hits == {i \in (top + 1)..Len(selectionStack) :
                        selectionStack[i] = ToggleOf(n)}
            kept == {i \in 1..Len(selectionStack) : i \notin hits}
            next == nextState(selectionStack, ToggleOf(n))
        IN hits # {}
           => /\ Len(next) = Cardinality(kept)
              /\ \A i \in kept :
                    next[Cardinality({j \in kept : j <= i})] = selectionStack[i]
              /\ asArray(next) = Without(asArray(selectionStack), {n})

\* C10: on a stack of TOGGLEs of distinct nodes with TOGGLE(a) on top,
\* RANGE(n), n # a, both in the pruned pre-order, gives range(a, n) from n
\* back to a, then the earlier selected nodes outside the range in their order.
C10_RangeOverToggles ==
    \A n \in TreeNodes :
        LET a == nodeAt(selectionStack, Len(selectionStack))
            range == Between(a, n)
        IN (/\ selectionStack # <<>>
            /\ \A i \in 1..Len(selectionStack) : selectionStack[i].type = TOGGLE
            /\ NoDuplicates(selectionStack)
            /\ n # a
            /\ a \in Range(PrunedOrder) /\ n \in Range(PrunedOrder))
           => asArray(nextState(selectionStack, RangeOf(n)))
              = Reverse(range) \o Without(asArray(selectionStack), Range(range))

\* a range over three toggles: one subsumed, one outside, and the anchor
C10_Witness ==
    \E n \in TreeNodes :
        /\ Len(selectionStack) = 3
        /\ \A i \in 1..3 : selectionStack[i].type = TOGGLE
        /\ n # selectionStack[3].node
        /\ {n, selectionStack[3].node} \subseteq Range(PrunedOrder)
        /\ Len(nextState(selectionStack, RangeOf(n))) = 3
        /\ Len(Between(selectionStack[3].node, n)) >= 3
        /\ \E i \in 1..2 : selectionStack[i].node \notin Range(Between(selectionStack[3].node, n))
        /\ \E x \in Expandable : ~expanded[x]

\* p is the beginning of s
IsPrefix(p, s) == Len(p) <= Len(s) /\ SubSeq(s, 1, Len(p)) = p

C12_RangeInclusive ==
    \A n \in TreeNodes :
        LET len == Len(selectionStack)
            a == nodeAt(selectionStack, len)
        IN (/\ len >= 1
            /\ selectionStack[len].type = TOGGLE
            /\ a \in Range(PrunedOrder) /\ n \in Range(PrunedOrder))
           => {a, n} \subseteq Range(asArray(nextState(selectionStack, RangeOf(n))))

\* C13: after addSelection of a DEFAULT, TOGGLE or RANGE gesture on a valid
\* node n, n is at index 0 of selectedNodes whenever it is in selectedNodes.
C13_MostRecentFirst ==
    \A n \in TreeNodes, t \in SelectionType :
        LET r == addSelection(selectionStack, selected, TreeSelection(n, t))
            nodes == asArray(r.state)
        IN n \in Range(nodes) => nodes[1] = n

\* C14: an addSelection call fires onSelectionChanged at most once, and the
\* listener finds the new state committed: the payload is selectedNodes and
\* the flags of the unselected and the newly selected nodes are updated.
C14_EventProtocol ==
    LET oldNodes == asArray(selectionStack)
    IN \A selection \in ServiceCalls :
          LET r == addSelection(selectionStack, selected, selection)
              newNodes == asArray(r.state)
              toUnselect == difference(oldNodes, newNodes)
              toSelect == difference(newNodes, oldNodes)
          IN /\ Len(r.fired) <= 1
             /\ \A i \in 1..Len(r.fired) :
                   /\ r.fired[i].state = r.state
                   /\ r.fired[i].payload = newNodes
                   /\ \A n \in Range(toUnselect) : ~r.fired[i].selected[n]
                   /\ \A n \in Range(toSelect) : r.fired[i].selected[n]

\* a call that fires its event after unselecting some nodes and selecting others
C14_Witness ==
    \E selection \in ServiceCalls :
        LET r == addSelection(selectionStack, selected, selection)
        IN /\ Len(r.fired) = 1
           /\ difference(asArray(selectionStack), asArray(r.state)) # <<>>
           /\ difference(asArray(r.state), asArray(selectionStack)) # <<>>

\* C15: addSelection of a gesture on a node that is not in the tree changes
\* neither the state, selectedNodes nor any flag, and fires no event.
C15_InvalidNodeNoOp ==
    \A t \in SelectionType :
        addSelection(selectionStack, selected, TreeSelection(missing, t))
        = [state |-> selectionStack, selected |-> selected, fired |-> <<>>]

\* a range is selected, some flags are set, and a RANGE gesture on the
\* missing node changes nothing
C15_Witness ==
    /\ last.op = "addSelection"
    /\ HasRange(selectionStack)
    /\ Len(asArray(selectionStack)) >= 2
    /\ \E n \in TreeNodes : selected[n]
    /\ addSelection(selectionStack, selected, RangeOf(missing)).state = selectionStack

\* C16: after addSelection('reset') the service holds the empty stack.
C16_ServiceReset ==
    addSelection(selectionStack, selected, reset).state = <<>>

\* C17: RANGE(n) applied to the empty state raises no error and gives a
\* state with an empty projection.
C17_RangeWithoutAnchor ==
    selectionStack = <<>>
    => \A n \in Nodes :
          LET next == nextState(selectionStack, RangeOf(n))
          IN /\ checkNoDefaultSelection(selectionStack)
             /\ checkNoDefaultSelection(next)
             /\ asArray(next) = <<>>

\* the state made by a RANGE gesture on the empty state
C17_Witness ==
    /\ last.op = "nextState"
    /\ \E n \in TreeNodes : selectionStack = <<RangeOf(n)>>
    /\ asArray(selectionStack) = <<>>

C19_SelectNodePreserve ==
    \A n \in TreeNodes :
        LET r == selectNode(selectedNodes_, selected, n, TRUE)
            index == indexOf(selectedNodes_, n)
        IN /\ index = 0
              => r = [nodes |-> selectedNodes_, selected |-> selected, fired |-> <<>>]
           /\ index > 0
              => /\ r.nodes[1] = n
                 /\ Len(r.nodes) = Len(selectedNodes_)
                 /\ Without(r.nodes, {n}) = Without(selectedNodes_, {n})
           /\ index = -1
              => r.nodes = <<n>> \o selectedNodes_

\* three selected nodes and one that is not: the three cases of the claim
C19_Witness ==
    /\ Len(selectedNodes_) = 3
    /\ \E n \in TreeNodes : indexOf(selectedNodes_, n) = -1
    /\ selectNode(selectedNodes_, selected, selectedNodes_[1], TRUE).fired = <<>>
    /\ selectNode(selectedNodes_, selected, selectedNodes_[3], TRUE).nodes
       = <<selectedNodes_[3], selectedNodes_[1], selectedNodes_[2]>>

\* C20: selectNode with a node that is not in the tree leaves selectedNodes
\* and all flags unchanged, for either value of preserveSelection.
C20_SelectInvalidNode ==
    \A p \in BOOLEAN :
        LET r == selectNode(selectedNodes_, selected, missing, p)
        IN r.nodes = selectedNodes_ /\ r.selected = selected

\* C21: unselectNode(n) removes a selected n from selectedNodes, clears its
\* flag and keeps the order of the other nodes; with n not selected or not
\* in the tree selectedNodes is unchanged.
C21_UnselectNode ==
    \A n \in Nodes :
        LET r == unselectNode(selectedNodes_, selected, n)
        IN IF n \in Range(selectedNodes_)
           THEN /\ n \notin Range(r.nodes)
                /\ ~r.selected[n]
                /\ r.nodes = Without(selectedNodes_, {n})
           ELSE r.nodes = selectedNodes_

\* C22: toggleSelection(n) on a valid node takes a selected n out of
\* selectedNodes and puts an unselected n at index 0; the other selected
\* nodes keep their relative order.
C22_ToggleSelection ==
    \A n \in TreeNodes :
        LET r == toggleSelection(selectedNodes_, selected, n)
        IN /\ IF n \in Range(selectedNodes_)
              THEN n \notin Range(r.nodes)
              ELSE r.nodes # <<>> /\ r.nodes[1] = n
           /\ Without(r.nodes, {n}) = Without(selectedNodes_, {n})

\* position of a node in the pruned pre-order, -1 for a hidden node
PrunedIndex(n) == indexOf(PrunedOrder, n)

\* C23: for distinct nodes from and to of the pruned pre-order,
\* selectionRange(to, from) is the slice of that order between them, both
\* included, listed from `from` to `to`, and holds no hidden node.
C23_RangeIsSlice ==
    \A to \in Range(PrunedOrder), from \in Range(PrunedOrder) :
        to # from
        => LET range == modelSelectionRange(to, from)
           IN /\ range = Between(from, to)
              /\ \A i \in 1..Len(range) : TreeNode_isVisible(range[i])

\* 1.1 is collapsed and the range from 1.3 back to the root passes over it
C23_Witness ==
    /\ ~expanded["1.1"] /\ expanded[root]
    /\ modelSelectionRange("1", "1.3") = <<"1.3", "1.2", "1.1", "1">>
    /\ modelSelectionRange("1.3", "1") = <<"1", "1.1", "1.2", "1.3">>

\* C24: for distinct nodes of the tree, hidden ones included,
\* selectionRange(to, from) is empty or holds both to and from.
C24_RangeHoldsEndpoints ==
    \A to \in TreeNodes, from \in TreeNodes :
        to # from
        => LET range == modelSelectionRange(to, from)
           IN range = <<>> \/ {to, from} \subseteq Range(range)

\* C25: for all nodes a and b of the tree, selectionRange(b, a) is the
\* reverse of selectionRange(a, b).
C25_RangeDirection ==
    \A a \in TreeNodes, b \in TreeNodes :
        modelSelectionRange(b, a) = Reverse(modelSelectionRange(a, b))

\* a range of four nodes in both directions, with 1.1 collapsed
C25_Witness ==
    /\ ~expanded["1.1"] /\ expanded[root]
    /\ Len(modelSelectionRange("1", "1.3")) = 4
    /\ modelSelectionRange("1.3", "1") = Reverse(modelSelectionRange("1", "1.3"))
    /\ modelSelectionRange("1.3", "1") # modelSelectionRange("1", "1.3")

\* C26 as stated: with from after to in the pruned pre-order,
\* selectionRange(to, from) has to as its first and from as its last element.
C26_Orientation ==
    \A to \in Range(PrunedOrder), from \in Range(PrunedOrder) :
        PrunedIndex(from) > PrunedIndex(to)
        => LET range == modelSelectionRange(to, from)
           IN range # <<>> /\ range[1] = to /\ range[Len(range)] = from

\* C26 amended: with from after to in the pruned pre-order,
\* selectionRange(to, from) has from as its first and to as its last element.
C26_OrientationAmended ==
    \A to \in Range(PrunedOrder), from \in Range(PrunedOrder) :
        PrunedIndex(from) > PrunedIndex(to)
        => LET range == modelSelectionRange(to, from)
           IN range # <<>> /\ range[1] = from /\ range[Len(range)] = to

\* from = 1.3 comes after to = 1.1 and the range is listed from 1.3 to 1.1
C26_Witness ==
    /\ expanded[root] /\ expanded["1.1"]
    /\ PrunedIndex("1.3") > PrunedIndex("1.1")
    /\ modelSelectionRange("1.1", "1.3") = <<"1.3", "1.2", "1.1.1", "1.1">>

\* C27: selectionRange(to, from) is empty when to = from, when the tree has
\* no root, and when to or from is not a node of the tree.
C27_EmptyRange ==
    \A treeRoot \in {root, undefined} :
        \A to \in Nodes \cup {undefined}, from \in Nodes \cup {undefined} :
            (to = from \/ treeRoot = undefined
                \/ to \notin TreeNodes \/ from \notin TreeNodes)
            => TreeModelImpl_selectionRange(treeRoot, to, from) = <<>>

\* the tree is fully shown: the range of a node with itself, a range with
\* the missing node and a range in a tree without root are empty, a range
\* between two shown nodes is not
C27_Witness ==
    /\ \A n \in Expandable : expanded[n]
    /\ TreeModelImpl_selectionRange(root, "1.1", "1.1") = <<>>
    /\ TreeModelImpl_selectionRange(root, missing, "1.2") = <<>>
    /\ TreeModelImpl_selectionRange(undefined, "1", "1.2") = <<>>
    /\ TreeModelImpl_selectionRange(root, "1", "1.2") # <<>>

\* the fromNode selectRange uses: the argument, or selectedNodes[0]
FromOf(fromNode) ==
    IF fromNode # undefined THEN fromNode ELSE firstSelected(selectedNodes_)

\* C28 as stated: after selectRange(to, from) with a non-empty range and
\* preserveSelection false, selectedNodes has from (selectedNodes[0] when
\* omitted) as its first and to as its last element.
C28_SelectRangeOrder ==
    \A to \in Nodes, fromNode \in Nodes \cup {undefined} :
        LET from == FromOf(fromNode)
            r == selectRange(selectedNodes_, selected, to, fromNode, FALSE)
        IN modelSelectionRange(to, from) # <<>>
           => r.nodes # <<>> /\ r.nodes[1] = from /\ r.nodes[Len(r.nodes)] = to

\* C28 amended: after selectRange(to, from) with a non-empty range and
\* preserveSelection false, selectedNodes is the range in reverse order,
\* with to first and from last when both are in the pruned pre-order; from
\* is selectedNodes[0] when omitted.
C28_SelectRangeOrderAmended ==
    \A to \in Nodes, fromNode \in Nodes \cup {undefined} :
        LET from == FromOf(fromNode)
            range == modelSelectionRange(to, from)
            r == selectRange(selectedNodes_, selected, to, fromNode, FALSE)
        IN range # <<>>
           => /\ r.nodes = Reverse(range)
              /\ {to, from} \subseteq Range(PrunedOrder)
                 => r.nodes[1] = to /\ r.nodes[Len(r.nodes)] = from

\* a range of three or more nodes selected from the first selected node
C28_Witness ==
    \E to \in TreeNodes :
        LET r == selectRange(selectedNodes_, selected, to, undefined, FALSE)
        IN /\ selectedNodes_ # <<>>
           /\ {to, selectedNodes_[1]} \subseteq Range(PrunedOrder)
           /\ Len(r.nodes) >= 3
           /\ r.nodes[1] = to /\ r.nodes[Len(r.nodes)] = selectedNodes_[1]
           /\ r.nodes # selectedNodes_

\* C29: after selectRange with preserveSelection true and a non-empty range,
\* selectedNodes is the range followed by the earlier selection without the
\* nodes of the range, in its order, and no node is in it twice.
C29_SelectRangePreserve ==
    \A to \in Nodes, fromNode \in Nodes \cup {undefined} :
        LET range == Reverse(modelSelectionRange(to, FromOf(fromNode)))
            r == selectRange(selectedNodes_, selected, to, fromNode, TRUE)
        IN range # <<>>
           => /\ r.nodes = range \o Without(selectedNodes_, Range(range))
              /\ NoDuplicates(r.nodes)

\* the lists of distinct nodes of the tree a caller can hand to setSelection
DistinctValidLists == {nodes \in SelectionLists : Range(nodes) \subseteq TreeNodes}

\* the gesture state after one gesture of the given type per node, the last
\* node of the list first
RECURSIVE gesturePerNode(_, _, _)
gesturePerNode(stack, nodes, type) ==
    IF nodes = <<>> THEN stack
    ELSE gesturePerNode(nextState(stack, TreeSelection(nodes[Len(nodes)], type)),
                        pop(nodes), type)

\* C30 as stated: setSelection(nodes) of distinct valid nodes leaves the
\* selectedNodes that RESET and then one DEFAULT gesture per node, in reverse
\* order, leave as the projection of the gesture state.
C30_PathsAgree ==
    LET empty == nextState(selectionStack, reset)
    IN \A nodes \in DistinctValidLists :
          setSelection(selectedNodes_, selected, nodes).nodes
          = asArray(gesturePerNode(empty, nodes, DEFAULT))

\* C30 amended: the same with one TOGGLE gesture per node.
C30_PathsAgreeAmended ==
    LET empty == nextState(selectionStack, reset)
    IN \A nodes \in DistinctValidLists :
          setSelection(selectedNodes_, selected, nodes).nodes
          = asArray(gesturePerNode(empty, nodes, TOGGLE))

\* the gesture state holds a range over a collapsed node, and two nodes are
\* set on both paths
C30_Witness ==
    /\ HasRange(selectionStack)
    /\ asArray(selectionStack) # <<>>
    /\ ~expanded["1.1"]
    /\ \E nodes \in DistinctValidLists :
          /\ Len(nodes) = 2
          /\ setSelection(selectedNodes_, selected, nodes).nodes = nodes
          /\ asArray(gesturePerNode(nextState(selectionStack, reset), nodes, TOGGLE))
             = nodes

\* the pre-order of the whole tree, collapsed sub-trees included
FullOrder == PreOrderTreeIterator(root, FALSE)

\* the nodes of the collapse-pruned pre-order that come after n in the tree,
\* nearest first
VisibleAfter(n) ==
    SelectSeq(SubSeq(FullOrder, indexOf(FullOrder, n) + 2, Len(FullOrder)),
              SelectableTreeNode_isVisible)

\* the nodes of the collapse-pruned pre-order that come before n in the
\* tree, nearest first
VisibleBefore(n) ==
    Reverse(SelectSeq(SubSeq(FullOrder, 1, indexOf(FullOrder, n)),
                      SelectableTreeNode_isVisible))

\* the outcome r of a navigation call on the list and flags: the first of
\* the candidates is selected in front, alone unless the selection is
\* preserved; without a candidate nothing changes
Navigated(r, list, flags, candidates, preserveSelection) ==
    IF candidates = <<>>
    THEN r.nodes = list /\ r.selected = flags
    ELSE /\ r.nodes # <<>>
         /\ r.nodes[1] = candidates[1]
         /\ r.selected[candidates[1]]
         /\ candidates[1] # firstSelected(list)
         /\ IF preserveSelection
            THEN Range(r.nodes) = Range(list) \cup {candidates[1]}
            ELSE r.nodes = <<candidates[1]>>

\* C31: selectNextNode (selectPrevNode) selects the first visible selectable
\* node after (before) selectedNodes[0] in the collapse-pruned pre-order,
\* never the start node itself; when there is no such node, or nothing is
\* selected, the selection is unchanged.
C31_KeyboardNavigation ==
    LET start == firstSelected(selectedNodes_)
        after == IF start = undefined THEN <<>> ELSE VisibleAfter(start)
        before == IF start = undefined THEN <<>> ELSE VisibleBefore(start)
    IN \A p \in BOOLEAN :
          /\ Navigated(selectNextNode(selectedNodes_, selected, p),
                       selectedNodes_, selected, after, p)
          /\ Navigated(selectPrevNode(selectedNodes_, selected, p),
                       selectedNodes_, selected, before, p)

\* node 1.1 is collapsed and selected first of two: the next node is 1.2,
\* past the hidden 1.1.1, and the previous node is the root
C31_Witness ==
    /\ ~expanded["1.1"]
    /\ expanded[root]
    /\ Len(selectedNodes_) = 2
    /\ firstSelected(selectedNodes_) = "1.1"
    /\ selectNextNode(selectedNodes_, selected, FALSE).nodes = <<"1.2">>
    /\ selectPrevNode(selectedNodes_, selected, FALSE).nodes = <<root>>

\* the ancestors of n that are visible and selectable
VisibleAncestors(n) ==
    {a \in TreeNodes : isAncestor(a, n) /\ SelectableTreeNode_isVisible(a)}

\* C32: selectParent with exactly one node selected that has a visible
\* selectable ancestor makes the selection exactly the nearest such
\* ancestor; with zero or several nodes selected, or without such an
\* ancestor, the selection is unchanged.
C32_SelectParent ==
    LET r == selectParent(selectedNodes_, selected)
        ancestors == IF Cardinality(Range(selectedNodes_)) = 1
                     THEN VisibleAncestors(selectedNodes_[1]) ELSE {}
    IN IF ancestors # {}
       THEN \E a \in ancestors :
               /\ \A b \in ancestors \ {a} : isAncestor(b, a)
               /\ r.nodes = <<a>>
               /\ \A n \in TreeNodes : r.selected[n] <=> n = a
       ELSE r.nodes = selectedNodes_ /\ r.selected = selected

\* some selected node is a descendant of e
SelectedBelow(e) ==
    \E i \in 1..Len(selectedNodes_) : isAncestor(e, selectedNodes_[i])

\* C33: when a visible selectable node e is collapsed while a selected node
\* is a descendant of e, selectedNodes is exactly [e] once the collapse has
\* been handled; an expansion, or a collapse with no selected descendant,
\* leaves the list and the flags as they were.
C33_CollapseReconciliation ==
    [][\A e \in Expandable :
          expanded'[e] # expanded[e] =>
             IF expanded'[e] \/ ~SelectedBelow(e)
             THEN selectedNodes_' = selectedNodes_ /\ selected' = selected
             ELSE SelectableTreeNode_isVisible(e) =>
                     /\ selectedNodes_' = <<e>>
                     /\ \A n \in TreeNodes : selected'[n] <=> n = e]_vars

\* node 1.1 is expanded and its child 1.1.1 is one of two selected nodes:
\* collapsing 1.1 leaves 1.1 alone selected
C33_Witness ==
    /\ expanded["1.1"]
    /\ expanded[root]
    /\ Len(selectedNodes_) = 2
    /\ "1.1.1" \in Range(selectedNodes_)
    /\ "1.1" \notin Range(selectedNodes_)
    /\ onExpansionChanged(selectedNodes_, selected, "1.1", FALSE).nodes = <<"1.1">>

\* C34: after the selection service has been disposed, selection operations
\* are no-ops: selectedNodes and the selected flags no longer change.
C34_DisposedNoOps ==
    [][disposed => selectedNodes_' = selectedNodes_ /\ selected' = selected]_vars

\* the first (oldest) element of a non-empty stack is a RANGE gesture
LeadingRange(stack) == stack # <<>> /\ stack[1].type = RANGE

C36_RangeAboveToggle ==
    /\ \A i \in 2..Len(selectionStack) :
          selectionStack[i].type = RANGE => selectionStack[i - 1].type = TOGGLE
    /\ HasRange(selectionStack) =>
          \A n \in TreeNodes, t \in {TOGGLE, RANGE} :
              LET next == nextState(selectionStack, TreeSelection(n, t))
              IN \A i \in 2..Len(selectionStack) :
                    selectionStack[i].type = RANGE =>
                       \/ \E j \in 2..Len(next) :
                             /\ next[j - 1] = selectionStack[i - 1]
                             /\ next[j] = selectionStack[i]
                       \/ /\ Len(next) >= i - 1
                          /\ SubSeq(next, 1, i - 1) = SubSeq(selectionStack, 1, i - 1)

\* a stack of two ranges, each directly above its anchor toggle, reached by
\* a gesture
C36_Witness ==
    /\ last.op = "nextState"
    /\ Len(selectionStack) = 4
    /\ selectionStack[1].type = TOGGLE
    /\ selectionStack[2].type = RANGE
    /\ selectionStack[3].type = TOGGLE
    /\ selectionStack[4].type = RANGE

\* C37: no reachable gesture stack holds a DEFAULT or untyped gesture: a
\* DEFAULT or untyped gesture always gives the one-element stack
\* [TOGGLE(node)], and checkNoDefaultSelection accepts every stack reached
\* through nextState.
C37_NoDefaultInStack ==
    /\ checkNoDefaultSelection(selectionStack)
    /\ \A n \in TreeNodes, t \in {DEFAULT, undefined} :
          LET next == nextState(selectionStack, TreeSelection(n, t))
          IN next = <<ToggleOf(n)>> /\ checkNoDefaultSelection(next)

\* a DEFAULT gesture is about to replace a stack of three gestures, a RANGE
\* among them, by one toggle
C37_Witness ==
    /\ Len(selectionStack) = 3
    /\ HasRange(selectionStack)
    /\ nextState(selectionStack, TreeSelection("1.2", DEFAULT)) = <<ToggleOf("1.2")>>

\* the stack a RANGE gesture works on: without the RANGE on top that the
\* gesture replaces
RangeBase(stack) ==
    IF stack # <<>> /\ stack[Len(stack)].type = RANGE THEN pop(stack) ELSE stack

\* the anchor of a RANGE gesture on the stack: the node of the gesture on
\* top of the stack it works on
AnchorOf(stack) == nodeAt(RangeBase(stack), Len(RangeBase(stack)))

\* C38: after RANGE(n) is applied with anchor a, also when it replaces a
\* RANGE on top of the stack, no TOGGLE(m) with m in range(a, n) and m # a
\* is left between the new RANGE and the next RANGE below it.
C38_SubsumptionComplete ==
    \A n \in TreeNodes :
        LET a == AnchorOf(selectionStack)
            R == Range(selectionRange(a, n))
            next == nextState(selectionStack, RangeOf(n))
            below == TopRange(pop(next))
        IN \A k \in (below + 1)..(Len(next) - 1) :
              ~(next[k].type = TOGGLE /\ next[k].node \in R /\ next[k].node # a)

\* C39: RANGE(n) with anchor a removes from the stack only TOGGLE gestures
\* whose node lies in range(a, n) as selectionRange computes it, and a RANGE
\* on top that it replaces; every other gesture stays, in its order, also
\* when n = a.
C39_SubsumptionFrame ==
    \A n \in TreeNodes :
        LET a == AnchorOf(selectionStack)
            R == Range(selectionRange(a, n))
            next == nextState(selectionStack, RangeOf(n))
            Outside(g) == g.type = RANGE \/ g.node \notin R
        IN /\ next # <<>>
           /\ next[Len(next)] = RangeOf(n)
           /\ SelectSeq(pop(next), Outside) = SelectSeq(RangeBase(selectionStack), Outside)

\* C40: in every reachable service state, addSelection(DEFAULT(n)) followed
\* by addSelection(RANGE(m)), for distinct valid nodes n and m of the
\* collapse-pruned pre-order, leaves selectedNodes equal to range(n, m)
\* listed from m back to n.
C40_ClickSetsAnchor ==
    \A n \in Range(PrunedOrder), m \in Range(PrunedOrder) :
        n # m =>
           LET click == addSelection(selectionStack, selected, TreeSelection(n, DEFAULT))
               shiftClick == addSelection(click.state, click.selected, RangeOf(m))
           IN asArray(shiftClick.state) = Between(m, n)

====
